---- MODULE Spec2Model ----
(***************************************************************************)
(* A model of TEES train.py: the resumable training pipeline (train), its  *)
(* step plan (getSteps), the task profile resolver (getTaskSettings) and   *)
(* the data slicer (getSubsets, getFolds).                                 *)
(*                                                                         *)
(* Python values.  A Python string is a TLA+ string.  None, True, False    *)
(* and "a list" are the strings PyNone, PyTrue, PyFalse, PyList, which no  *)
(* Python string of the model equals (the sentinel string "None" of the    *)
(* input files is the TLA+ string "None").  A parameter string such as     *)
(* "convert:scores" is the sequence of its ":"-separated tokens,           *)
(* <<"convert", "scores">>; the empty string is <<"">> and None, which no  *)
(* split produces, is <<>>.  A task identifier is the sequence of the      *)
(* pieces the code looks at: <<"GE11", ".", "1", "-MINI">>.  A path is the *)
(* sequence of its "/"-separated components: "training/a.xml" is           *)
(* <<"training", "a.xml">>, "/corpora/a.xml" is <<"", "corpora", "a.xml">>,*)
(* the sentinel "None" is <<"None">> and None is <<>>.                     *)
(***************************************************************************)
EXTENDS Integers, Sequences, FiniteSets, TLC

PyNone == "<None>"
PyTrue == "<True>"
PyFalse == "<False>"
PyList == "<list>"
NoneP == <<>>

RECURSIVE Join(_)
\* The string a sequence of pieces spells.
Join(toks) == IF toks = <<>> THEN "" ELSE Head(toks) \o Join(Tail(toks))

\* str.replace(piece, "") on a tokenised string.
RemoveToken(toks, t) == SelectSeq(toks, LAMBDA x : x # t)

\* token in the ":"-separated parameter string
HasToken(p, t) == \E i \in 1..Len(p) : p[i] = t

Range(s) == {s[i] : i \in 1..Len(s)}

\* list(reversed(s))
Reversed(s) == [i \in 1..Len(s) |-> s[Len(s) + 1 - i]]

(***************************************************************************)
(* Utils.Parameters.cat(default, new, message, verboseFor): the layering   *)
(* rule "the default applies unless a non-empty value is already there".   *)
(***************************************************************************)
IsBlank(p) == p = NoneP \/ p = <<"">>

ParametersCat(default, new) == IF ~IsBlank(new) THEN new ELSE default

(***************************************************************************)
(* getTaskSettings                                                         *)
(***************************************************************************)
RecognisedTasks ==
    {"GE09", "GE09.1", "GE09.2", "GE11", "GE11.1", "GE11.2", "EPI11", "ID11",
     "BB11", "BI11", "BI11-FULL", "CO11", "REL11", "REN11", "DDI11", "DDI11-FULL"}

\* a resolver that takes every identifier
TaskRecognisedAlways(task) == TRUE

\* assert task.replace("-MINI", "") in [...]
TaskRecognised(task) == Join(RemoveToken(task, "-MINI")) \in RecognisedTasks

DotPositions(task) == {i \in 1..Len(task) : task[i] = "."}

IntLiterals == {"0", "1", "2", "3", "4", "5", "6", "7", "8", "9"}

IntOf(s) == CHOOSE n \in 0..9 : ToString(n) = s

\* subTask = 2; if "." in task: task, subTask = task.split("."); int(subTask)
SplitTask(task) ==
    IF DotPositions(task) = {}
    THEN [ok |-> TRUE, task |-> task, subTask |-> 2]
    ELSE IF Cardinality(DotPositions(task)) # 1
    THEN [ok |-> FALSE, task |-> task, subTask |-> 2]
    ELSE LET d == CHOOSE i \in DotPositions(task) : TRUE
             sub == Join(SubSeq(task, d + 1, Len(task)))
         IN  IF sub \in IntLiterals
             THEN [ok |-> TRUE, task |-> SubSeq(task, 1, d - 1), subTask |-> IntOf(sub)]
             ELSE [ok |-> FALSE, task |-> SubSeq(task, 1, d - 1), subTask |-> 2]

\* the sentinel string "None" of an input file
NoneString == <<"None">>

\* Settings.CORPUS_DIR
CorpusDir == <<"", "corpora">>

\* os.path.join(dir, name), name a plain file name
PathJoin(dir, name) == dir \o <<name>>

\* os.path.basename(path)
Basename(path) == path[Len(path)]

CatenatedTrain == <<"training", "ID11-train-and-GE11-devel-and-train.xml.gz">>

\* os.path.join(dataPath, task.replace("-FULL", "") + "-<role>.xml")
DefaultPath(task, role) ==
    PathJoin(CorpusDir, Join(RemoveToken(task, "-FULL")) \o "-" \o role \o ".xml")

\* the train input a task gets when none is given
DefaultTrain(task) ==
    IF Join(task) = "ID" THEN CatenatedTrain ELSE DefaultPath(task, "train")

\* input defaults that take the sentinel "None" for an unset input
DefaultInputFilesForSentinel(task, inputFiles) ==
    [role \in DOMAIN inputFiles |->
        IF inputFiles[role] \in {NoneP, NoneString}
        THEN IF role = "train" THEN DefaultTrain(task) ELSE DefaultPath(task, role)
        ELSE inputFiles[role]]

\* if inputFiles[role] == None and inputFiles[role] != "None": ...
DefaultInputFiles(task, inputFiles) ==
    [role \in DOMAIN inputFiles |->
        IF inputFiles[role] = NoneP /\ inputFiles[role] # NoneString
        THEN IF role = "train" THEN DefaultTrain(task) ELSE DefaultPath(task, role)
        ELSE inputFiles[role]]

\* Catenate.catenate is called for the train input
CatenateCalled(task, inputFiles) ==
    inputFiles["train"] = NoneP /\ Join(task) = "ID"

\* DefaultDetector with REN11 missing from the single-stage tasks
DefaultDetectorNoREN11(t, detector, isSingleStage) ==
    IF detector # PyNone
    THEN [detector |-> detector, isSingleStage |-> isSingleStage]
    ELSE IF t = "CO11"
    THEN [detector |-> "Detectors.CODetector", isSingleStage |-> isSingleStage]
    ELSE IF t \in {"BI11", "DDI11"}
    THEN [detector |-> "Detectors.EdgeDetector", isSingleStage |-> TRUE]
    ELSE [detector |-> "Detectors.EventDetector", isSingleStage |-> isSingleStage]

\* if detector == None: the detector of the task, and isSingleStage with it
DefaultDetector(t, detector, isSingleStage) ==
    IF detector # PyNone
    THEN [detector |-> detector, isSingleStage |-> isSingleStage]
    ELSE IF t = "CO11"
    THEN [detector |-> "Detectors.CODetector", isSingleStage |-> isSingleStage]
    ELSE IF t \in {"REN11", "BI11", "DDI11"}
    THEN [detector |-> "Detectors.EdgeDetector", isSingleStage |-> TRUE]
    ELSE [detector |-> "Detectors.EventDetector", isSingleStage |-> isSingleStage]

\* bioNLPSTParams = Parameters.cat(bioNLPSTParams, "<fragment>", ...)
BioNLPSTDefault(t, bioNLPSTParams) ==
    IF t = "BI11-FULL"
    THEN ParametersCat(bioNLPSTParams, <<"convert", "scores">>)
    ELSE IF t = "REL11"
    THEN ParametersCat(bioNLPSTParams, <<"convert", "evaluate", "scores", "a2Tag=rel">>)
    ELSE IF t \notin {"DDI11", "DDI11-FULL"}
    THEN ParametersCat(bioNLPSTParams, <<"convert", "evaluate", "scores">>)
    ELSE bioNLPSTParams

\* the value of the Parameters.cat(...) expression on the preprocessor line
PreprocessorFragment(t, preprocessorParams) ==
    IF t \in {"BI11", "BI11-FULL", "BB11", "DDI11", "DDI11-FULL"}
    THEN ParametersCat(<<"intermediateFiles", "omitSteps=NER,DIVIDE-SETS">>, preprocessorParams)
    ELSE ParametersCat(<<"intermediateFiles", "omitSteps=DIVIDE-SETS", "PARSE.requireEntities">>,
                       preprocessorParams)

\* preprocessorParams after those lines: the expression's value is not assigned
PreprocessorDefault(t, preprocessorParams) == preprocessorParams

\* if processUnmerging == None and not isSingleStage: ...
\* the default of processUnmerging with "BB11" missing from the list
DefaultUnmergingNoBB11(t, processUnmerging, isSingleStage) ==
    IF processUnmerging = PyNone /\ ~isSingleStage
    THEN IF t \in {"CO11", "REL11", "BI11-FULL", "DDI11-FULL"} THEN PyFalse ELSE PyTrue
    ELSE processUnmerging

DefaultUnmerging(t, processUnmerging, isSingleStage) ==
    IF processUnmerging = PyNone /\ ~isSingleStage
    THEN IF t \in {"CO11", "REL11", "BB11", "BI11-FULL", "DDI11-FULL"} THEN PyFalse ELSE PyTrue
    ELSE processUnmerging

\* if processModifiers == None: ...
DefaultModifiers(t, processModifiers) ==
    IF processModifiers = PyNone
    THEN IF t \in {"GE11", "EPI11", "ID11"} THEN PyTrue ELSE PyFalse
    ELSE processModifiers

\* the literals of the example style lines, split at ":"
StyleREN11 == <<"trigger_features", "typed", "no_linear", "entities", "noMasking", "maxFeatures", "bacteria_renaming", "maskTypeAsProtein=Gene">>
StyleBI11 == <<"trigger_features", "typed", "directed", "no_linear", "entities", "noMasking", "maxFeatures", "auto_limits">>
StyleDDI11 == <<"trigger_features", "typed", "no_linear", "entities", "noMasking", "maxFeatures", "ddi_features", "ddi_mtmx", "filter_shortest_path=conj_and">>
StyleEdgeGenia == <<"trigger_features", "typed", "directed", "no_linear", "entities", "auto_limits", "noMasking", "maxFeatures">>
StyleEdgeREL11 == <<"trigger_features", "typed", "directed", "no_linear", "entities", "noMasking", "maxFeatures", "auto_limits", "rel_features">>
StyleEdgeAutoLimits == <<"trigger_features", "typed", "directed", "no_linear", "entities", "noMasking", "maxFeatures", "auto_limits">>
StyleEdgeDDI11Full == <<"trigger_features", "typed", "no_linear", "entities", "noMasking", "maxFeatures", "ddi_features", "filter_shortest_path=conj_and">>
StyleEdgeGeneric == <<"trigger_features", "typed", "directed", "no_linear", "entities", "noMasking", "maxFeatures">>
StyleEdgeTask1 == <<"", "genia_task1">>
StyleTriggerBB11 == <<"bb_features", "build_for_nameless", "wordnet">>
StyleTriggerNames == <<"build_for_nameless", "names">>
StyleUnmerging == <<"trigger_features", "typed", "directed", "no_linear", "entities", "genia_limits", "noMasking", "maxFeatures">>

\* if isSingleStage: exampleStyles["examples"] = Parameters.cat(<literal>, exampleStyles["examples"])
SingleStageStyle(t, examples) ==
    IF t = "REN11" THEN ParametersCat(StyleREN11, examples)
    ELSE IF t = "BI11" THEN ParametersCat(StyleBI11, examples)
    ELSE IF t = "DDI11" THEN ParametersCat(StyleDDI11, examples)
    ELSE examples

\* EdgeStyleSubTask appending the flag to the style on every call
EdgeStyleSubTaskAppends(subTask, edge) ==
    IF subTask = 1 THEN edge \o <<"genia_task1">> ELSE edge

\* the edge style appended for sub-task 1
EdgeStyleSubTask(subTask, edge) ==
    IF subTask = 1 THEN ParametersCat(StyleEdgeTask1, edge) ELSE edge

\* else: exampleStyles["edge"] = Parameters.cat(<literal>, exampleStyles["edge"])
EdgeStyle(t, subTask, edge) ==
    IF t \in {"GE09", "GE11"} THEN EdgeStyleSubTask(subTask, ParametersCat(StyleEdgeGenia, edge))
    ELSE IF t \in {"BB11", "EPI11", "ID11"} THEN ParametersCat(StyleEdgeGenia, edge)
    ELSE IF t = "REL11" THEN ParametersCat(StyleEdgeREL11, edge)
    ELSE IF t \in {"CO11", "BI11-FULL"} THEN ParametersCat(StyleEdgeAutoLimits, edge)
    ELSE IF t = "DDI11-FULL" THEN ParametersCat(StyleEdgeDDI11Full, edge)
    ELSE ParametersCat(StyleEdgeGeneric, edge)

\* the trigger style of the two full tasks, set by plain assignment
FullTaskTriggerStyle(trigger) == StyleTriggerNames

\* Trigger style (the CO11 branch assigns to options, not to the style)
TriggerStyle(t, subTask, trigger) ==
    IF t \in {"GE09", "GE11"} /\ subTask = 1 THEN ParametersCat(<<"genia_task1">>, trigger)
    ELSE IF t = "EPI11" THEN ParametersCat(<<"epi_merge_negated">>, trigger)
    ELSE IF t = "BB11" THEN ParametersCat(StyleTriggerBB11, trigger)
    ELSE IF t = "REL11" THEN ParametersCat(<<"rel_features">>, trigger)
    ELSE IF t = "CO11" THEN trigger
    ELSE IF t \in {"BI11-FULL", "DDI11-FULL"} THEN FullTaskTriggerStyle(trigger)
    ELSE trigger

\* options.triggerExampleBuilder = ...: options is a global of the script only
TriggerStyleRaises(t, subTask, optionsDefined) ==
    /\ ~(t \in {"GE09", "GE11"} /\ subTask = 1)
    /\ t = "CO11"
    /\ ~optionsDefined

\* Example style parameters: [ok, exampleStyles]; ok is false when the CO11
\* branch raises NameError, with the edge style already assigned.
ExampleStyleDefaults(t, subTask, isSingleStage, exampleStyles, optionsDefined) ==
    IF isSingleStage
    THEN [ok |-> TRUE,
          exampleStyles |-> [exampleStyles EXCEPT !["examples"] = SingleStageStyle(t, @)]]
    ELSE IF TriggerStyleRaises(t, subTask, optionsDefined)
    THEN [ok |-> FALSE,
          exampleStyles |-> [exampleStyles EXCEPT !["edge"] = EdgeStyle(t, subTask, @)]]
    ELSE [ok |-> TRUE,
          exampleStyles |-> [exampleStyles EXCEPT
                                !["edge"] = EdgeStyle(t, subTask, @),
                                !["trigger"] = TriggerStyle(t, subTask, @),
                                !["unmerging"] = ParametersCat(StyleUnmerging, @)]]

\* the literals of the classifier parameter lines
ClsREN11 == <<"c=10,100,1000,2000,3000,4000,4500,5000,5500,6000,7500,10000,20000,25000,28000,50000,60000">>
ClsBI11 == <<"c=10,100,1000,2500,5000,7500,10000,20000,25000,28000,50000,60000,65000,80000,100000,150000">>
ClsDDI11 == <<"c=10,100,1000,2500,4000,5000,6000,7500,10000,20000,25000,50000", "TEES.threshold">>
ClsTrigger == <<"c=1000,5000,10000,20000,50000,80000,100000,150000,180000,200000,250000,300000,350000,500000,1000000">>
ClsRecallCO11 == <<"0.8,0.9,0.95,1.0">>
ClsRecall == <<"0.5,0.6,0.65,0.7,0.85,1.0,1.1,1.2">>
ClsEdgeREL11 == <<"c=10,100,1000,5000,7500,10000,20000,25000,28000,50000,60000,65000,100000,500000,1000000">>
ClsEdge == <<"c=5000,7500,10000,20000,25000,27500,28000,29000,30000,35000,40000,50000,60000,65000">>
ClsUnmerging == <<"c=1,10,100,500,1000,1500,2500,5000,10000,20000,50000,80000,100000">>
ClsModifiers == <<"c=5000,10000,20000,50000,100000">>

\* Classifier parameters
ClassifierDefaults(t, isSingleStage, classifierParameters) ==
    IF isSingleStage
    THEN [classifierParameters EXCEPT !["examples"] =
            IF t = "REN11" THEN ParametersCat(ClsREN11, @)
            ELSE IF t = "BI11" THEN ParametersCat(ClsBI11, @)
            ELSE IF t = "DDI11" THEN ParametersCat(ClsDDI11, @)
            ELSE @]
    ELSE [classifierParameters EXCEPT
            !["trigger"] = ParametersCat(ClsTrigger, @),
            !["recall"] = IF t = "CO11" THEN ParametersCat(ClsRecallCO11, @)
                                        ELSE ParametersCat(ClsRecall, @),
            !["edge"] = IF t \in {"REL11", "CO11"} THEN ParametersCat(ClsEdgeREL11, @)
                                                   ELSE ParametersCat(ClsEdge, @),
            !["unmerging"] = ParametersCat(ClsUnmerging, @),
            !["modifiers"] = ParametersCat(ClsModifiers, @)]

\* the tokens of the model that have "names" as a substring
NamesTokens == {"names", "keep_names"}

\* style != None and "names" in style (a substring test on the whole string)
ContainsNames(style) == \E i \in 1..Len(style) : style[i] \in NamesTokens

RemoveNamesFromEmpty(isSingleStage, exampleStyles) ==
    IF isSingleStage THEN ContainsNames(exampleStyles["examples"])
    ELSE ContainsNames(exampleStyles["trigger"])

(***************************************************************************)
(* getTaskSettings(task, detector, ..., classifierParameters): the values  *)
(* it returns, with the three dictionaries as it leaves them (it assigns   *)
(* into the caller's dictionaries).  error names the exception it raises,  *)
(* "" when it returns.                                                     *)
(***************************************************************************)
Outcome(error, a, det, pU, pM, bio, pre, files, styles, cls) ==
    [error |-> error,
     detector |-> det.detector,
     processUnmerging |-> pU,
     processModifiers |-> pM,
     isSingleStage |-> det.isSingleStage,
     bioNLPSTParams |-> bio,
     preprocessorParams |-> pre,
     inputFiles |-> files,
     exampleStyles |-> styles,
     classifierParameters |-> cls,
     removeNamesFromEmpty |-> RemoveNamesFromEmpty(det.isSingleStage, styles)]

Unchanged(error, a) ==
    Outcome(error, a, [detector |-> a.detector, isSingleStage |-> a.isSingleStage],
            a.processUnmerging, a.processModifiers, a.bioNLPSTParams, a.preprocessorParams,
            a.inputFiles, a.exampleStyles, a.classifierParameters)

GetTaskSettings(a, optionsDefined) ==
    IF a.task = NoneP THEN Unchanged("", a)
    ELSE IF ~TaskRecognised(a.task) THEN Unchanged("AssertionError", a)
    ELSE IF ~SplitTask(a.task).ok THEN Unchanged("ValueError", a)
    ELSE
    LET split == SplitTask(a.task)
        files == DefaultInputFiles(split.task, a.inputFiles)
        t     == Join(RemoveToken(split.task, "-MINI"))
        det   == DefaultDetector(t, a.detector, a.isSingleStage)
        bio   == BioNLPSTDefault(t, a.bioNLPSTParams)
        pre   == PreprocessorDefault(t, a.preprocessorParams)
        pU    == DefaultUnmerging(t, a.processUnmerging, det.isSingleStage)
        pM    == DefaultModifiers(t, a.processModifiers)
        sty   == ExampleStyleDefaults(t, split.subTask, det.isSingleStage,
                                      a.exampleStyles, optionsDefined)
        cls   == ClassifierDefaults(t, det.isSingleStage, a.classifierParameters)
    IN  IF ~sty.ok
        THEN Outcome("NameError", a, det, pU, pM, bio, pre, files, sty.exampleStyles,
                     a.classifierParameters)
        ELSE Outcome("", a, det, pU, pM, bio, pre, files, sty.exampleStyles, cls)


(***************************************************************************)
(* getSteps and the step selector                                          *)
(***************************************************************************)
\* mainSteps, as train() passes it to getSteps
MainSteps == <<"TRAIN", "DEVEL", "EMPTY", "TEST">>

Phases == Range(MainSteps)

\* Parameters.get(parameters, defaults): every key of defaults, None where
\* the caller named no value
ParametersGet(given, keys) ==
    [k \in keys |-> IF k \in DOMAIN given THEN given[k] ELSE PyNone]

\* the main steps that name a place to start from
ResumeSteps(step) == {m \in DOMAIN step : step[m] # PyNone}

\* getSteps without "assert fromMainStep == None"
StepsAcceptedAnyCount(step) == \A m \in ResumeSteps(step) : step[m] # PyList

\* the two assertions of the first loop of getSteps hold
StepsAccepted(step) ==
    /\ Cardinality(ResumeSteps(step)) <= 1
    /\ \A m \in ResumeSteps(step) : step[m] # PyList

\* getSteps that never records the main step to start from
FromMainStepUnset(step) == PyNone

\* fromMainStep
FromMainStep(step) ==
    IF ResumeSteps(step) = {} THEN PyNone ELSE CHOOSE m \in ResumeSteps(step) : TRUE

\* fromSubStep without the reset of a value of True to None
FromSubStepKeepsTrue(step) == step

\* fromSubStep
FromSubStep(step) ==
    [m \in DOMAIN step |-> IF step[m] = PyTrue THEN PyNone ELSE step[m]]

\* getSteps that never appends to omitMainSteps
OmitMainStepsEmpty(omitSteps) == {}

\* omitMainSteps
OmitMainSteps(omitSteps) == {m \in DOMAIN omitSteps : omitSteps[m] = PyTrue}

\* omitSubSteps
OmitSubSteps(omitSteps) ==
    [m \in DOMAIN omitSteps |-> IF omitSteps[m] = PyTrue THEN PyNone ELSE omitSteps[m]]

\* StepSelector(mainSteps, fromStep=fromMainStep, omitSteps=omitMainSteps)
StepSelector(steps, fromStep, omitSteps) ==
    [steps |-> steps, fromStep |-> fromStep, omitSteps |-> omitSteps]

\* getSteps(step, omitSteps, mainSteps): ok is false when an assertion fails
GetSteps(stepArg, omitArg, mainSteps) ==
    LET step == ParametersGet(stepArg, Range(mainSteps))
        omitSteps == ParametersGet(omitArg, Range(mainSteps))
    IN  [ok |-> StepsAccepted(step),
         selector |-> StepSelector(mainSteps, FromMainStep(step), OmitMainSteps(omitSteps)),
         detectorSteps |-> FromSubStep(step),
         omitDetectorSteps |-> OmitSubSteps(omitSteps)]

StepIndex(steps, p) == CHOOSE i \in 1..Len(steps) : steps[i] = p

\* selector.check(phase)
SelectorCheck(sel, p) ==
    /\ p \notin sel.omitSteps
    /\ IF sel.fromStep = PyNone THEN TRUE
       ELSE StepIndex(sel.steps, p) >= StepIndex(sel.steps, sel.fromStep)

\* train() with the DEVEL and EMPTY blocks exchanged
PhaseOrderSwapped == <<"TRAIN", "EMPTY", "DEVEL", "TEST">>

\* the order of the four phase blocks of train()
PhaseOrder == <<"TRAIN", "DEVEL", "EMPTY", "TEST">>

\* the statement after the block of a phase
PhaseAfter(p) ==
    IF StepIndex(PhaseOrder, p) = Len(PhaseOrder) THEN "done"
    ELSE PhaseOrder[StepIndex(PhaseOrder, p) + 1]

(***************************************************************************)
(* getSubsets and getFolds.  A fraction is a Python string or a float; a   *)
(* float is written "<float 0.5>".  Utils.InteractionXML.Subset.getSubset  *)
(* reads its source and writes its output file.                            *)
(***************************************************************************)
Float05 == "<float 0.5>"
Float1 == "<float 1.0>"

\* str(fraction)
PyStr(v) == IF v = Float05 THEN "0.5" ELSE IF v = Float1 THEN "1.0" ELSE v

\* the datasets, in the order of the loops
DatasetOrder == <<"devel", "train", "test">>

\* a file name that leaves the seed out
SubsetFileNameNoSeed(fraction, seed, source) ==
    "subset_" \o PyStr(fraction) \o "_" \o Basename(source)

\* "subset_" + str(fraction) + "_" + str(seed) + "_" + basename
SubsetFileName(fraction, seed, source) ==
    "subset_" \o PyStr(fraction) \o "_" \o ToString(seed) \o "_" \o Basename(source)

\* tempfile.mkdtemp(): a fresh directory, the n-th of the process
TempDir(n) == <<"", "tmp", "tmp" \o ToString(n)>>

\* one pass of the loop of getSubsets, on st = [inputFiles, fs, outdir,
\* computed, tmp, error]
SubsetOne(st, subset, dataset) ==
    IF st.error # "" THEN st
    ELSE IF ~(st.inputFiles[dataset] \notin {NoneP, NoneString}
              /\ (subset[dataset] # PyNone \/ subset["all"] # PyNone))
    THEN st
    ELSE
    LET fraction == IF subset[dataset] = PyNone THEN subset["all"] ELSE subset[dataset]
        tmp == IF st.outdir = NoneP THEN st.tmp + 1 ELSE st.tmp
        outdir == IF st.outdir = NoneP THEN TempDir(tmp) ELSE st.outdir
        outFileName == PathJoin(outdir, SubsetFileName(fraction, subset["seed"],
                                                       st.inputFiles[dataset]))
    IN  IF outFileName \in st.fs
        THEN [st EXCEPT !.inputFiles[dataset] = outFileName, !.outdir = outdir, !.tmp = tmp]
        ELSE IF st.inputFiles[dataset] \notin st.fs
        THEN [st EXCEPT !.outdir = outdir, !.tmp = tmp, !.error = "IOError"]
        ELSE [st EXCEPT !.inputFiles[dataset] = outFileName, !.outdir = outdir, !.tmp = tmp,
                        !.fs = @ \cup {outFileName},
                        !.computed = Append(@, [source |-> st.inputFiles[dataset],
                                                out |-> outFileName,
                                                fraction |-> PyStr(fraction),
                                                seed |-> subset["seed"]])]

RECURSIVE SubsetLoop(_, _, _)
SubsetLoop(st, subset, datasets) ==
    IF datasets = <<>> THEN st
    ELSE SubsetLoop(SubsetOne(st, subset, Head(datasets)), subset, Tail(datasets))

\* getSubsets(inputFiles, subset, outdir)
GetSubsets(files, subset, outdir, fs, tmp) ==
    SubsetLoop([inputFiles |-> files, fs |-> fs, outdir |-> outdir, computed |-> <<>>,
                tmp |-> tmp, error |-> ""], subset, DatasetOrder)

\* str.replace("train", "t") on one fold label
AbbreviateTrain(label) == IF label = "train" THEN "t" ELSE label

RECURSIVE JoinLabels(_)
\* "_".join(folds).replace("train", "t")
JoinLabels(labels) ==
    IF labels = <<>> THEN ""
    ELSE IF Len(labels) = 1 THEN AbbreviateTrain(labels[1])
    ELSE AbbreviateTrain(labels[1]) \o "_" \o JoinLabels(Tail(labels))

\* dataset + "-" + idString + ".xml"
FoldFileName(dataset, labels) == dataset \o "-" \o JoinLabels(labels) \o ".xml"

\* getFolds with the assertion on inputFiles["test"] left out
FoldsPreconditionDevelOnly(files) == files["devel"] \in {NoneP, NoneString}

\* assert inputFiles["devel"] in [None, "None"]; the same for "test"
FoldsPrecondition(files) ==
    /\ files["devel"] \in {NoneP, NoneString}
    /\ files["test"] \in {NoneP, NoneString}

\* one pass of the fold loop as it would run on the dictionary of the caller
FoldOne(st, folds, dataset) ==
    IF st.error # "" \/ folds[dataset] = NoneP THEN st
    ELSE
    LET tmp == IF st.outdir = NoneP THEN st.tmp + 1 ELSE st.tmp
        dir == IF st.outdir = NoneP THEN TempDir(tmp) ELSE st.outdir
        outFileName == PathJoin(dir, FoldFileName(dataset, folds[dataset]))
    IN  IF outFileName \in st.fs
        THEN [st EXCEPT !.inputFiles[dataset] = outFileName, !.outdir = dir, !.tmp = tmp]
        ELSE IF st.inputFiles["train"] \notin st.fs
        THEN [st EXCEPT !.outdir = dir, !.tmp = tmp, !.error = "IOError"]
        ELSE [st EXCEPT !.inputFiles[dataset] = outFileName, !.outdir = dir, !.tmp = tmp,
                        !.fs = @ \cup {outFileName},
                        !.computed = Append(@, [source |-> st.inputFiles["train"],
                                                out |-> outFileName,
                                                fraction |-> "set", seed |-> 0])]

\* getFolds with the loop reading the dictionary of the caller in every pass
GetFoldsUnshadowed(files, folds, outdir, fs, tmp) ==
    LET st0 == [inputFiles |-> files, fs |-> fs, outdir |-> outdir, computed |-> <<>>,
                tmp |-> tmp, error |-> ""]
    IN
    IF folds["train"] = NoneP \/ folds["devel"] = NoneP THEN st0
    ELSE IF ~FoldsPrecondition(files)
    THEN [st0 EXCEPT !.error = "AssertionError"]
    ELSE FoldOne(FoldOne(FoldOne(st0, folds, "devel"), folds, "train"), folds, "test")

\* getFolds(inputFiles, folds, outdir).  A fold value is the list of its
\* labels (a single string is made a one-element list), None is <<>>.  The
\* loop assigns the devel list to the name folds, so that indexing it with
\* "train" in the second pass raises TypeError.
GetFolds(files, folds, outdir, fs, tmp) ==
    LET st0 == [inputFiles |-> files, fs |-> fs, outdir |-> outdir, computed |-> <<>>,
                tmp |-> tmp, error |-> ""]
    IN
    IF folds["train"] = NoneP \/ folds["devel"] = NoneP THEN st0
    ELSE IF ~FoldsPrecondition(files)
    THEN [st0 EXCEPT !.error = "AssertionError"]
    ELSE
    LET labels == folds["devel"]
        tmp1 == IF outdir = NoneP THEN tmp + 1 ELSE tmp
        dir == IF outdir = NoneP THEN TempDir(tmp1) ELSE outdir
        outFileName == PathJoin(dir, FoldFileName("devel", labels))
    IN  IF outFileName \in fs
        THEN [st0 EXCEPT !.inputFiles["devel"] = outFileName, !.outdir = dir, !.tmp = tmp1,
                         !.error = "TypeError"]
        ELSE IF files["train"] \notin fs
        THEN [st0 EXCEPT !.outdir = dir, !.tmp = tmp1, !.error = "IOError"]
        ELSE [st0 EXCEPT !.inputFiles["devel"] = outFileName, !.outdir = dir, !.tmp = tmp1,
                         !.fs = @ \cup {outFileName},
                         !.computed = <<[source |-> files["train"], out |-> outFileName,
                                         fraction |-> "set", seed |-> 0]>>,
                         !.error = "TypeError"]

\* a path that does not lie in the output directory
IsAbsolute(path) == Len(path) > 0 /\ path[1] = ""

\* detector.getBioNLPSharedTaskParams(bioNLPSTParams): the flags named
DetectorParams(bioNLPSTParams) ==
    [convert |-> HasToken(bioNLPSTParams, "convert"),
     scores |-> HasToken(bioNLPSTParams, "scores")]

(***************************************************************************)
(* State.  args: the arguments train() (or a direct caller of one of its   *)
(* helpers) was given.  The other variables are the locals and             *)
(* dictionaries the code assigns, the files that exist, and what the       *)
(* detector was asked to do.                                               *)
(***************************************************************************)
VARIABLES
    pc,                \* the statement of train() to execute next
    args,              \* the arguments of the call
    optionsDefined,    \* the module runs as a script, so the global options exists
    settings,          \* detector, processUnmerging, processModifiers, isSingleStage,
                       \* bioNLPSTParams, preprocessorParams, removeNamesFromEmpty
    inputFiles,        \* the inputFiles dictionary
    exampleStyles,     \* the exampleStyles dictionary
    classifierParams,  \* the classifierParams dictionary
    profiles,          \* what each getTaskSettings call returned, in order
    error,             \* the exception that ended the run, "" when none
    selector,          \* the StepSelector getSteps built
    detectorSteps,     \* the substep to start each main step from
    omitDetectorSteps, \* the substeps to omit, by main step
    fs,                \* the files that exist: absolute paths, and paths
                       \* relative to the output directory
    tmpDirs,           \* how many temporary directories were made
    computed,          \* the getSubset computations made, in order
    entered,           \* the phase blocks entered, in order
    calls,             \* the calls of detector.train and detector.classify
    detectorParams,    \* detector.bioNLPSTParams
    annotated,         \* the models the detector type was saved into
    compared,          \* the test archive was compared with the devel archive
    outputExists,      \* the output directory exists
    cwd,               \* the working directory of the process
    atexit,            \* the directories the exit hooks change to, in order
    restored           \* the directories the exit hooks changed to, in order

resolverVars == <<args, optionsDefined, settings, inputFiles, exampleStyles,
                  classifierParams, profiles>>

pipelineVars == <<selector, detectorSteps, omitDetectorSteps, entered, calls,
                  detectorParams, annotated, compared>>

sliceVars == <<fs, tmpDirs, computed>>

processVars == <<outputExists, cwd, atexit, restored>>

vars == <<pc, args, optionsDefined, settings, inputFiles, exampleStyles,
          classifierParams, profiles, error, selector, detectorSteps,
          omitDetectorSteps, fs, tmpDirs, computed, entered, calls,
          detectorParams, annotated, compared, outputExists, cwd, atexit, restored>>

StyleKeys == {"examples", "trigger", "edge", "unmerging", "modifiers"}
ClsKeys == {"examples", "trigger", "recall", "edge", "unmerging", "modifiers"}
Roles == {"train", "devel", "test"}

\* the scalars of an outcome of getTaskSettings
Scalars(r) ==
    [detector |-> r.detector,
     processUnmerging |-> r.processUnmerging,
     processModifiers |-> r.processModifiers,
     isSingleStage |-> r.isSingleStage,
     bioNLPSTParams |-> r.bioNLPSTParams,
     preprocessorParams |-> r.preprocessorParams,
     removeNamesFromEmpty |-> r.removeNamesFromEmpty]

\* getDefinedBool(string): its assertion holds
DefinedBoolOk(string) == string \in {PyTrue, PyFalse, PyNone, "True", "False"}

\* getDefinedBool(string): the value returned
GetDefinedBool(string) ==
    IF string \in {PyTrue, PyFalse} THEN string
    ELSE IF string = PyNone THEN PyNone
    ELSE IF string = "True" THEN PyTrue
    ELSE PyFalse

\* the arguments of a getTaskSettings call: the scalars sc the caller passes,
\* the dictionaries as they are now
CallArgs(sc) ==
    [task |-> args.task,
     detector |-> sc.detector,
     processUnmerging |-> sc.processUnmerging,
     processModifiers |-> sc.processModifiers,
     isSingleStage |-> sc.isSingleStage,
     bioNLPSTParams |-> sc.bioNLPSTParams,
     preprocessorParams |-> sc.preprocessorParams,
     inputFiles |-> inputFiles,
     exampleStyles |-> exampleStyles,
     classifierParameters |-> classifierParams]

(***************************************************************************)
(* The inputs of the model.                                                *)
(***************************************************************************)
\* how many slots a caller overrides at once
MaxOverrides == 2
\* how many times a caller resolves the same profile
NumResolves == 2

TaskIds ==
    {<<"GE09">>, <<"GE09", ".", "1">>, <<"GE09", ".", "2">>,
     <<"GE11">>, <<"GE11", ".", "1">>, <<"GE11", ".", "2">>,
     <<"EPI11">>, <<"ID11">>, <<"BB11">>, <<"BI11">>, <<"BI11", "-FULL">>,
     <<"CO11">>, <<"REL11">>, <<"REN11">>, <<"DDI11">>, <<"DDI11", "-FULL">>,
     <<"REN11", "-MINI">>, <<"BI11", "-FULL", "-MINI">>,
     <<"GE11", "-MINI", ".", "1">>, <<"GE11", ".", "1", "-MINI">>,
     <<"ID">>, <<"XX99">>, NoneP}

\* the slots that hold a parameter string or a path
ParamSlots ==
    {<<"param", "bioNLPSTParams">>, <<"param", "preprocessorParams">>}
    \cup {<<"style", k>> : k \in StyleKeys}
    \cup {<<"cls", k>> : k \in ClsKeys}
    \cup {<<"file", r>> : r \in Roles}

\* the slots that hold a boolean or a detector
StringSlots ==
    {<<"toggle", "processUnmerging">>, <<"toggle", "processModifiers">>,
     <<"detector", "detector">>}

UserFile(role) == <<"", "data", "my-" \o role \o ".xml">>

\* a parameter string: a non-empty value (it has "names" as a substring) and
\* the empty string; an input file: a path of the caller, or the sentinel
ParamOverrides(slot) ==
    IF slot[1] # "file" THEN {<<"keep_names">>, <<"">>}
    ELSE IF slot[2] = "train" THEN {UserFile("train")}
    ELSE {NoneString}

StringOverrides(slot) ==
    IF slot[1] = "toggle" THEN {PyTrue, PyFalse}
    ELSE {"Detectors.UserDetector"}

RECURSIVE SubsetsUpTo(_, _)
\* the subsets of S with at most k elements
SubsetsUpTo(S, k) ==
    IF k = 0 THEN {{}}
    ELSE LET P == SubsetsUpTo(S, k - 1) IN P \cup {p \cup {x} : p \in P, x \in S}

\* the override choices: a function on the overridden parameter-string slots
\* and one on the overridden other slots, MaxOverrides slots in all
OverrideChoices ==
    UNION {
        UNION {
            {<<op, os>> : op \in {f \in [P -> UNION {ParamOverrides(x) : x \in P}] :
                                     \A x \in P : f[x] \in ParamOverrides(x)},
                          os \in {f \in [S -> UNION {StringOverrides(x) : x \in S}] :
                                     \A x \in S : f[x] \in StringOverrides(x)}}
            : S \in SubsetsUpTo(StringSlots, MaxOverrides - Cardinality(P))}
        : P \in SubsetsUpTo(ParamSlots, MaxOverrides)}

\* options matters to the CO11 branch alone
OptionsCases(task) == IF "CO11" \in Range(task) THEN BOOLEAN ELSE {TRUE}

ParamOf(ov, slot) == IF slot \in DOMAIN ov[1] THEN ov[1][slot] ELSE NoneP
StringOf(ov, slot) == IF slot \in DOMAIN ov[2] THEN ov[2][slot] ELSE PyNone

\* the arguments a caller passes for a task and a choice of overrides
ArgsOf(task, isSingleStage, ov) ==
    [task |-> task,
     detector |-> StringOf(ov, <<"detector", "detector">>),
     processUnmerging |-> StringOf(ov, <<"toggle", "processUnmerging">>),
     processModifiers |-> StringOf(ov, <<"toggle", "processModifiers">>),
     isSingleStage |-> isSingleStage,
     bioNLPSTParams |-> ParamOf(ov, <<"param", "bioNLPSTParams">>),
     preprocessorParams |-> ParamOf(ov, <<"param", "preprocessorParams">>),
     inputFiles |-> [r \in Roles |-> ParamOf(ov, <<"file", r>>)],
     exampleStyles |-> [k \in StyleKeys |-> ParamOf(ov, <<"style", k>>)],
     classifierParams |-> [k \in ClsKeys |-> ParamOf(ov, <<"cls", k>>)]]

\* the scalars as the caller passed them
PassedScalars ==
    [detector |-> args.detector,
     processUnmerging |-> args.processUnmerging,
     processModifiers |-> args.processModifiers,
     isSingleStage |-> args.isSingleStage,
     bioNLPSTParams |-> args.bioNLPSTParams,
     preprocessorParams |-> args.preprocessorParams,
     removeNamesFromEmpty |-> FALSE]

\* nothing of the step plan and of the phases has happened
NothingRun ==
    /\ selector = StepSelector(<<>>, PyNone, {})
    /\ detectorSteps = [m \in Phases |-> PyNone]
    /\ omitDetectorSteps = [m \in Phases |-> PyNone]
    /\ entered = <<>>
    /\ calls = <<>>
    /\ detectorParams = DetectorParams(NoneP)
    /\ annotated = <<>>
    /\ compared = FALSE

\* the directory the process was started in
OriginalDir == <<"", "home">>

InOriginalDirectory ==
    /\ outputExists = FALSE
    /\ cwd = OriginalDir
    /\ atexit = <<>>
    /\ restored = <<>>

(***************************************************************************)
(* A caller that resolves a task profile, and resolves it again with the   *)
(* same arguments and the same dictionaries.                               *)
(***************************************************************************)
InitResolve ==
    /\ pc = "resolve"
    /\ \E task \in TaskIds, iss \in BOOLEAN, ov \in OverrideChoices :
          args = ArgsOf(task, iss, ov)
    /\ optionsDefined \in OptionsCases(args.task)
    /\ settings = PassedScalars
    /\ inputFiles = args.inputFiles
    /\ exampleStyles = args.exampleStyles
    /\ classifierParams = args.classifierParams
    /\ profiles = <<>>
    /\ error = ""
    /\ NothingRun
    /\ fs = {}
    /\ tmpDirs = 0
    /\ computed = <<>>
    /\ InOriginalDirectory

\* the assignments of one getTaskSettings call
TaskSettingsAssigned(r) ==
    /\ settings' = Scalars(r)
    /\ inputFiles' = r.inputFiles
    /\ exampleStyles' = r.exampleStyles
    /\ classifierParams' = r.classifierParameters
    /\ profiles' = Append(profiles, r)
    /\ error' = r.error

Resolve ==
    /\ pc = "resolve"
    /\ Len(profiles) < NumResolves
    /\ LET r == GetTaskSettings(CallArgs(PassedScalars), optionsDefined)
       IN  /\ r.error = ""
           /\ TaskSettingsAssigned(r)
           /\ pc' = "resolve"
    /\ UNCHANGED <<args, optionsDefined, pipelineVars, sliceVars, processVars>>

ResolveFails ==
    /\ pc = "resolve"
    /\ Len(profiles) < NumResolves
    /\ LET r == GetTaskSettings(CallArgs(PassedScalars), optionsDefined)
       IN  /\ r.error # ""
           /\ TaskSettingsAssigned(r)
           /\ pc' = "failed"
    /\ UNCHANGED <<args, optionsDefined, pipelineVars, sliceVars, processVars>>

NextResolve == Resolve \/ ResolveFails

SpecResolve == InitResolve /\ [][NextResolve]_vars


(***************************************************************************)
(* train(): one action per statement group, in the order of the code.     *)
(***************************************************************************)
\* outdir="training", the default of getFolds and getSubsets
TrainingDir == <<"training">>

Fail(e) == pc' = "failed" /\ error' = e

\* Insert default arguments where needed; getDefinedBool of the two toggles
TrainStart ==
    /\ pc = "start"
    /\ IF DefinedBoolOk(args.processUnmerging) /\ DefinedBoolOk(args.processModifiers)
       THEN /\ settings' = [settings EXCEPT
                               !.processUnmerging = GetDefinedBool(args.processUnmerging),
                               !.processModifiers = GetDefinedBool(args.processModifiers)]
            /\ pc' = "workdir"
            /\ error' = error
       ELSE /\ Fail("AssertionError")
            /\ settings' = settings
    /\ UNCHANGED <<args, optionsDefined, inputFiles, exampleStyles, classifierParams,
                   profiles, pipelineVars, sliceVars, processVars>>

\* a hook registered with the directory that is current after the switch
RegisterRestoreAfterSwitch(hooks, dir) == Append(hooks, args.output)

\* atexit.register(os.chdir, os.getcwd())
RegisterRestore(hooks, dir) == Append(hooks, dir)

\* the files a template directory brings
TemplateFiles == {<<"model-devel">>}

\* workdir(output, deleteOutput, copyFrom, log)
Workdir ==
    /\ pc = "workdir"
    /\ LET deleteIfExists == args.deleteOutput \/ args.copyFrom # NoneP
           removed == outputExists /\ deleteIfExists
           existsNow == outputExists /\ ~removed
           kept == IF removed THEN {f \in fs : IsAbsolute(f)} ELSE fs
       IN  IF ~existsNow /\ args.copyFrom # NoneP /\ ~optionsDefined
           THEN /\ Fail("NameError")
                /\ fs' = kept
                /\ outputExists' = FALSE
                /\ UNCHANGED <<cwd, atexit>>
           ELSE /\ fs' = IF ~existsNow /\ args.copyFrom # NoneP
                         THEN kept \cup TemplateFiles ELSE kept
                /\ outputExists' = TRUE
                /\ atexit' = RegisterRestore(atexit, cwd)
                /\ cwd' = args.output
                /\ pc' = "getTaskSettings"
                /\ error' = error
    /\ UNCHANGED <<args, optionsDefined, settings, inputFiles, exampleStyles,
                   classifierParams, profiles, pipelineVars, tmpDirs, computed, restored>>

\* Catenate.catenate writes the catenated train file
Catenates ==
    /\ args.task # NoneP
    /\ TaskRecognised(args.task)
    /\ SplitTask(args.task).ok
    /\ CatenateCalled(SplitTask(args.task).task, inputFiles)

\* detector, ..., removeNamesFromEmpty = getTaskSettings(task, detector, ...)
TrainGetTaskSettings ==
    /\ pc = "getTaskSettings"
    /\ LET r == GetTaskSettings(CallArgs(settings), optionsDefined)
       IN  /\ TaskSettingsAssigned(r)
           /\ pc' = IF r.error = "" THEN "getFolds" ELSE "failed"
    /\ fs' = IF Catenates THEN fs \cup {CatenatedTrain} ELSE fs
    /\ UNCHANGED <<args, optionsDefined, pipelineVars, tmpDirs, computed, processVars>>

\* the assignments of a getFolds or getSubsets call that ended as st
SlicesAssigned(st) ==
    /\ inputFiles' = st.inputFiles
    /\ fs' = st.fs
    /\ tmpDirs' = st.tmp
    /\ computed' = computed \o st.computed
    /\ error' = st.error

\* getFolds(inputFiles, folds)
TrainGetFolds ==
    /\ pc = "getFolds"
    /\ LET st == GetFolds(inputFiles, args.folds, TrainingDir, fs, tmpDirs)
       IN  /\ SlicesAssigned(st)
           /\ pc' = IF st.error = "" THEN "getSubsets" ELSE "failed"
    /\ UNCHANGED <<args, optionsDefined, settings, exampleStyles, classifierParams,
                   profiles, pipelineVars, processVars>>

\* getSubsets(inputFiles, subset)
TrainGetSubsets ==
    /\ pc = "getSubsets"
    /\ LET st == GetSubsets(inputFiles, args.subset, TrainingDir, fs, tmpDirs)
       IN  /\ SlicesAssigned(st)
           /\ pc' = IF st.error = "" THEN "getSteps" ELSE "failed"
    /\ UNCHANGED <<args, optionsDefined, settings, exampleStyles, classifierParams,
                   profiles, pipelineVars, processVars>>

\* selector, detectorSteps, omitDetectorSteps = getSteps(step, omitSteps, [...])
TrainGetSteps ==
    /\ pc = "getSteps"
    /\ LET g == GetSteps(args.step, args.omitSteps, MainSteps)
       IN  IF g.ok
           THEN /\ selector' = g.selector
                /\ detectorSteps' = g.detectorSteps
                /\ omitDetectorSteps' = g.omitDetectorSteps
                /\ pc' = "getDetector"
                /\ error' = error
           ELSE /\ Fail("AssertionError")
                /\ UNCHANGED <<selector, detectorSteps, omitDetectorSteps>>
    /\ UNCHANGED <<args, optionsDefined, settings, inputFiles, exampleStyles,
                   classifierParams, profiles, entered, calls, detectorParams,
                   annotated, compared, sliceVars, processVars>>

\* Initialize the detector: getDetector(detector) asserts model != None when
\* no detector is named; detector.getBioNLPSharedTaskParams; getConnection
TrainGetDetector ==
    /\ pc = "getDetector"
    /\ IF settings.detector = PyNone
       THEN /\ Fail("AssertionError")
            /\ detectorParams' = detectorParams
       ELSE /\ detectorParams' = DetectorParams(settings.bioNLPSTParams)
            /\ pc' = PhaseOrder[1]
            /\ error' = error
    /\ UNCHANGED <<args, optionsDefined, settings, inputFiles, exampleStyles,
                   classifierParams, profiles, selector, detectorSteps,
                   omitDetectorSteps, entered, calls, annotated, compared,
                   sliceVars, processVars>>

CallPc(p) == p \o ".call"

\* a call of the detector that has not returned yet
Call(phase, method, input, model, gold) ==
    [phase |-> phase, method |-> method, input |-> input, model |-> model,
     goldData |-> gold, fromStep |-> detectorSteps[phase], state |-> "running"]

frame == <<args, optionsDefined, settings, inputFiles, exampleStyles, classifierParams,
           profiles, selector, detectorSteps, omitDetectorSteps, tmpDirs, computed,
           processVars>>

\* if selector.check(phase) is false: the block of the phase is passed over
PhaseSkipped ==
    /\ pc \in Phases
    /\ ~SelectorCheck(selector, pc)
    /\ pc' = PhaseAfter(pc)
    /\ UNCHANGED <<frame, fs, entered, calls, detectorParams, annotated, compared, error>>

\* if selector.check("TRAIN"): detector.train(...)
TrainPhase ==
    /\ pc = "TRAIN"
    /\ SelectorCheck(selector, "TRAIN")
    /\ entered' = Append(entered, "TRAIN")
    /\ calls' = Append(calls, Call("TRAIN", "train", inputFiles["train"],
                                   args.models["devel"], inputFiles["devel"]))
    /\ pc' = CallPc("TRAIN")
    /\ UNCHANGED <<frame, fs, detectorParams, annotated, compared, error>>

\* if selector.check("DEVEL"): detector.classify(inputFiles["devel"], ...)
DevelPhase ==
    /\ pc = "DEVEL"
    /\ SelectorCheck(selector, "DEVEL")
    /\ entered' = Append(entered, "DEVEL")
    /\ calls' = Append(calls, Call("DEVEL", "classify", inputFiles["devel"],
                                   args.models["devel"], inputFiles["devel"]))
    /\ pc' = CallPc("DEVEL")
    /\ UNCHANGED <<frame, fs, detectorParams, annotated, compared, error>>

\* if selector.check("EMPTY"): detector.classify(getEmptyCorpus(...), ...)
EmptyPhase ==
    /\ pc = "EMPTY"
    /\ SelectorCheck(selector, "EMPTY")
    /\ entered' = Append(entered, "EMPTY")
    /\ calls' = Append(calls, Call("EMPTY", "classify", <<"<empty corpus>">> \o inputFiles["devel"],
                                   args.models["devel"], NoneP))
    /\ pc' = CallPc("EMPTY")
    /\ UNCHANGED <<frame, fs, detectorParams, annotated, compared, error>>

\* the test of line 129 without "not os.path.exists(...)"
TestFileMissingUnsetOnly == inputFiles["test"] = NoneP

\* inputFiles["test"] == None or not os.path.exists(inputFiles["test"])
TestFileMissing == inputFiles["test"] = NoneP \/ inputFiles["test"] \notin fs

\* if selector.check("TEST"), and the test file exists: detector.classify(...)
TestPhase ==
    /\ pc = "TEST"
    /\ SelectorCheck(selector, "TEST")
    /\ ~TestFileMissing
    /\ entered' = Append(entered, "TEST")
    /\ detectorParams' = [detectorParams EXCEPT !.scores = FALSE]
    /\ calls' = Append(calls, Call("TEST", "classify", inputFiles["test"],
                                   args.models["test"], NoneP))
    /\ pc' = CallPc("TEST")
    /\ UNCHANGED <<frame, fs, annotated, compared, error>>

\* if selector.check("TEST"), and there is no test file: "Skipping, ..."
TestSkipped ==
    /\ pc = "TEST"
    /\ SelectorCheck(selector, "TEST")
    /\ TestFileMissing
    /\ entered' = Append(entered, "TEST")
    /\ pc' = PhaseAfter("TEST")
    /\ UNCHANGED <<frame, fs, calls, detectorParams, annotated, compared, error>>

\* the models detector.train was asked for
RequestedModels == {args.models[k] : k \in {"devel", "test"}} \ {NoneP}

\* the statement after the call of a phase
AfterCall(p) ==
    IF p = "TRAIN" THEN "TRAIN.save.devel"
    ELSE IF p = "TEST" /\ detectorParams.convert THEN "TEST.compare"
    ELSE PhaseAfter(p)

\* the detector returns; training leaves the models it made
DetectorReturns ==
    /\ \E p \in Phases :
          /\ pc = CallPc(p)
          /\ pc' = AfterCall(p)
          /\ IF p = "TRAIN"
             THEN \E made \in SUBSET RequestedModels : fs' = fs \cup made
             ELSE fs' = fs
    /\ calls' = [calls EXCEPT ![Len(calls)].state = "returned"]
    /\ UNCHANGED <<frame, entered, detectorParams, annotated, compared, error>>

\* the detector raises; train() passes the exception on
DetectorRaises ==
    /\ \E p \in Phases : pc = CallPc(p)
    /\ calls' = [calls EXCEPT ![Len(calls)].state = "raised"]
    /\ Fail("DelegateError")
    /\ UNCHANGED <<frame, fs, entered, detectorParams, annotated, compared>>

\* the test of line 106 without "os.path.exists(model)"
ModelToAnnotateRequested(model) == model # NoneP

\* if model != None and os.path.exists(model)
ModelToAnnotate(model) == model # NoneP /\ model \in fs

\* Save the detector type: one pass of the loop over models["devel"], models["test"]
SaveDetectorType ==
    /\ \E k \in {"devel", "test"} :
          /\ pc = "TRAIN.save." \o k
          /\ pc' = IF k = "devel" THEN "TRAIN.save.test" ELSE PhaseAfter("TRAIN")
          /\ annotated' =
                IF ModelToAnnotate(args.models[k])
                THEN Append(annotated, [model |-> args.models[k],
                                        detector |-> settings.detector,
                                        preprocessorParams |-> settings.preprocessorParams])
                ELSE annotated
    /\ UNCHANGED <<frame, fs, entered, calls, detectorParams, compared, error>>

\* Utils.STFormat.Compare.compare(test archive, devel archive, "a2")
CompareArchives ==
    /\ pc = "TEST.compare"
    /\ compared' = TRUE
    /\ pc' = PhaseAfter("TEST")
    /\ UNCHANGED <<frame, fs, entered, calls, detectorParams, annotated, error>>

\* the interpreter ends, after train() returned or an exception left it:
\* the exit hooks run, last registered first
ProcessExit ==
    /\ pc \in {"done", "failed"}
    /\ pc' = "exited"
    /\ restored' = restored \o Reversed(atexit)
    /\ cwd' = IF atexit = <<>> THEN cwd ELSE atexit[1]
    /\ atexit' = <<>>
    /\ UNCHANGED <<args, optionsDefined, settings, inputFiles, exampleStyles,
                   classifierParams, profiles, error, pipelineVars, sliceVars,
                   outputExists>>

(***************************************************************************)
(* The calls of train() the model makes.                                   *)
(***************************************************************************)
\* how many main steps a --step value names at most
MaxResumePoints == 2
\* how many main steps an --omitSteps value names at most
MaxOmitted == 2

\* dictionaries on the keys of S with at most k of them, valued in V
Dicts(S, k, V) == UNION {[D -> V] : D \in SubsetsUpTo(S, k)}

\* step: a main step alone (True), with a substep, or with a list of substeps
StepChoices ==
    Dicts(Phases, MaxResumePoints, {PyTrue, "EDGES"})
    \cup {[m \in {"TRAIN"} |-> PyList]}

\* omitSteps: a main step alone (True), or with a substep
OmitChoices == Dicts(Phases, MaxOmitted, {PyTrue, "EDGES"})

NoFiles == [r \in Roles |-> NoneP]

\* task, detector, input files and toggle of the calls
TrainCases ==
    {[task |-> <<"GE11">>, detector |-> PyNone, inputFiles |-> NoFiles, toggle |-> PyNone],
     [task |-> <<"REN11", "-MINI">>, detector |-> PyNone, inputFiles |-> NoFiles,
      toggle |-> "True"],
     [task |-> NoneP, detector |-> "Detectors.UserDetector",
      inputFiles |-> [r \in Roles |-> UserFile(r)], toggle |-> PyFalse],
     [task |-> NoneP, detector |-> PyNone, inputFiles |-> NoFiles, toggle |-> PyNone],
     [task |-> <<"XX99">>, detector |-> "Detectors.UserDetector", inputFiles |-> NoFiles,
      toggle |-> PyNone],
     [task |-> <<"XX99", "-MINI">>, detector |-> "Detectors.UserDetector",
      inputFiles |-> [r \in Roles |-> UserFile(r)], toggle |-> PyNone],
     [task |-> <<"GE11", ".", "1", "-MINI">>, detector |-> PyNone, inputFiles |-> NoFiles,
      toggle |-> PyNone],
     [task |-> <<"GE11">>, detector |-> PyNone, inputFiles |-> NoFiles, toggle |-> "maybe"],
     [task |-> NoneP, detector |-> "Detectors.UserDetector",
      inputFiles |-> [NoFiles EXCEPT !["train"] = UserFile("train")], toggle |-> PyNone],
     [task |-> NoneP, detector |-> "Detectors.UserDetector",
      inputFiles |-> [NoFiles EXCEPT !["train"] = UserFile("train"),
                                     !["test"] = UserFile("test")], toggle |-> PyNone],
     [task |-> <<"GE11">>, detector |-> PyNone,
      inputFiles |-> [NoFiles EXCEPT !["test"] = NoneString], toggle |-> PyNone],
     [task |-> <<"GE11">>, detector |-> PyNone,
      inputFiles |-> [NoFiles EXCEPT !["train"] = NoneString, !["devel"] = NoneString],
      toggle |-> PyNone]}

\* the files of the caller and of the corpus of a task, for some roles
FilesFor(case, roles) ==
    {UserFile(r) : r \in roles}
    \cup (IF case.task = NoneP \/ ~TaskRecognised(case.task) \/ ~SplitTask(case.task).ok
          THEN {}
          ELSE {DefaultPath(SplitTask(case.task).task, r) : r \in roles})

SourceFiles(case) == FilesFor(case, Roles)

\* the test files among them
TestFiles(case) == FilesFor(case, {"test"})

NoSubset == [k \in {"train", "devel", "test", "all"} |-> PyNone] @@ [seed |-> 0]

BothModels == [devel |-> <<"model-devel">>, test |-> <<"model-test">>]

NoFolds == [r \in Roles |-> NoneP]

\* the models, folds and subsets of a call that names no step values
Variations ==
    {[models |-> BothModels, folds |-> NoFolds, subset |-> NoSubset],
     [models |-> [BothModels EXCEPT !.test = NoneP], folds |-> NoFolds, subset |-> NoSubset],
     [models |-> BothModels, subset |-> NoSubset,
      folds |-> [train |-> <<"train">>, devel |-> <<"a">>, test |-> <<"b">>]],
     [models |-> BothModels, subset |-> NoSubset,
      folds |-> [train |-> NoneP, devel |-> <<"a">>, test |-> <<"b">>]],
     [models |-> BothModels, folds |-> NoFolds,
      subset |-> [NoSubset EXCEPT !["all"] = "0.5"]],
     [models |-> BothModels, subset |-> [NoSubset EXCEPT !["all"] = "0.5"],
      folds |-> [train |-> <<"train">>, devel |-> <<"a">>, test |-> <<"b">>]]}

\* the call with every optional argument left out
PlainCall == [models |-> BothModels, folds |-> NoFolds, subset |-> NoSubset]

TrainArgs(case, step, omitSteps, v) ==
    [task |-> case.task,
     detector |-> case.detector,
     processUnmerging |-> case.toggle,
     processModifiers |-> PyNone,
     isSingleStage |-> FALSE,
     bioNLPSTParams |-> NoneP,
     preprocessorParams |-> NoneP,
     inputFiles |-> case.inputFiles,
     exampleStyles |-> [k \in StyleKeys |-> NoneP],
     classifierParams |-> [k \in ClsKeys |-> NoneP],
     models |-> v.models,
     step |-> step,
     omitSteps |-> omitSteps,
     subset |-> v.subset,
     folds |-> v.folds,
     output |-> <<"", "output">>,
     deleteOutput |-> FALSE,
     copyFrom |-> NoneP]

Init ==
    /\ pc = "start"
    /\ \E case \in TrainCases, step \in StepChoices, omitSteps \in OmitChoices,
          v \in Variations :
          /\ v = PlainCall \/ (DOMAIN step = {} /\ DOMAIN omitSteps = {})
          /\ args = TrainArgs(case, step, omitSteps, v)
          /\ fs \in {SourceFiles(case), SourceFiles(case) \ TestFiles(case)}
    /\ optionsDefined \in OptionsCases(args.task)
    /\ settings = PassedScalars
    /\ inputFiles = args.inputFiles
    /\ exampleStyles = args.exampleStyles
    /\ classifierParams = args.classifierParams
    /\ profiles = <<>>
    /\ error = ""
    /\ NothingRun
    /\ tmpDirs = 0
    /\ computed = <<>>
    /\ InOriginalDirectory

Next ==
    \/ TrainStart
    \/ Workdir
    \/ TrainGetTaskSettings
    \/ TrainGetFolds
    \/ TrainGetSubsets
    \/ TrainGetSteps
    \/ TrainGetDetector
    \/ PhaseSkipped
    \/ TrainPhase
    \/ DevelPhase
    \/ EmptyPhase
    \/ TestPhase
    \/ TestSkipped
    \/ DetectorReturns
    \/ DetectorRaises
    \/ SaveDetectorType
    \/ CompareArchives
    \/ ProcessExit

Spec == Init /\ [][Next]_vars

(***************************************************************************)
(* getSubsets called directly, more than once, with the parameters the     *)
(* caller first had (a fresh inputFiles dictionary for each call).         *)
(***************************************************************************)
\* how many times getSubsets is called
NumSubsetCalls == 2

CorpusFile == <<"corpus.xml">>

\* no task settings are involved
NoScalars ==
    [detector |-> PyNone, processUnmerging |-> PyNone, processModifiers |-> PyNone,
     isSingleStage |-> FALSE, bioNLPSTParams |-> NoneP, preprocessorParams |-> NoneP,
     removeNamesFromEmpty |-> FALSE]

\* inputFiles of a direct call: a file per dataset, None or the sentinel
SubsetSources == {NoneP, NoneString, CorpusFile, UserFile("train")}

\* fractions: None, a string or a float
Fractions == {PyNone, "0.5", Float05, Float1}

SubsetDicts ==
    {[devel |-> PyNone, train |-> f, test |-> PyNone, all |-> a, seed |-> sd] :
        f \in Fractions, a \in {PyNone, "0.5"}, sd \in {0, 1}}

InitSubsets ==
    /\ pc = "getSubsets"
    /\ \E files \in [Roles -> SubsetSources], subset \in SubsetDicts,
          outdir \in {TrainingDir, NoneP} :
          /\ files["test"] \in {NoneP, NoneString}
          /\ args = [inputFiles |-> files, subset |-> subset, outdir |-> outdir]
    /\ fs \in {{CorpusFile, UserFile("train")}, {CorpusFile}}
    /\ optionsDefined = TRUE
    /\ settings = NoScalars
    /\ inputFiles = args.inputFiles
    /\ exampleStyles = [k \in StyleKeys |-> NoneP]
    /\ classifierParams = [k \in ClsKeys |-> NoneP]
    /\ profiles = <<>>
    /\ error = ""
    /\ NothingRun
    /\ tmpDirs = 0
    /\ computed = <<>>
    /\ InOriginalDirectory

\* what one direct call did
SubsetCall(st) ==
    [method |-> "getSubsets", inputFiles |-> st.inputFiles, computed |-> st.computed,
     written |-> st.fs \ fs, error |-> st.error]

\* getSubsets(inputFiles, subset, outdir) returns
CallGetSubsets ==
    /\ pc = "getSubsets"
    /\ Len(calls) < NumSubsetCalls
    /\ LET st == GetSubsets(args.inputFiles, args.subset, args.outdir, fs, tmpDirs)
       IN  /\ st.error = ""
           /\ SlicesAssigned(st)
           /\ calls' = Append(calls, SubsetCall(st))
    /\ pc' = "getSubsets"
    /\ UNCHANGED <<args, optionsDefined, settings, exampleStyles, classifierParams,
                   profiles, selector, detectorSteps, omitDetectorSteps, entered,
                   detectorParams, annotated, compared, processVars>>

\* getSubsets(inputFiles, subset, outdir) raises
CallGetSubsetsFails ==
    /\ pc = "getSubsets"
    /\ Len(calls) < NumSubsetCalls
    /\ LET st == GetSubsets(args.inputFiles, args.subset, args.outdir, fs, tmpDirs)
       IN  /\ st.error # ""
           /\ SlicesAssigned(st)
           /\ calls' = Append(calls, SubsetCall(st))
    /\ pc' = "failed"
    /\ UNCHANGED <<args, optionsDefined, settings, exampleStyles, classifierParams,
                   profiles, selector, detectorSteps, omitDetectorSteps, entered,
                   detectorParams, annotated, compared, processVars>>

NextSubsets == CallGetSubsets \/ CallGetSubsetsFails

SpecSubsets == InitSubsets /\ [][NextSubsets]_vars

(***************************************************************************)
(* getFolds called directly, more than once; each call gets the            *)
(* inputFiles the caller first had, odd calls the first fold request and   *)
(* even calls the second, whose label lists are those of the first or      *)
(* their reversals.                                                        *)
(***************************************************************************)
\* how many times getFolds is called
NumFoldCalls == 2

\* the fold labels of one dataset: None, or a list of labels
FoldLabelLists == {NoneP, <<"a">>, <<"a", "b">>, <<"b", "a">>, <<"train">>}

FoldDicts == [Roles -> FoldLabelLists]

\* the fold request of the k-th call
FoldRequest(k) == IF k % 2 = 1 THEN args.folds ELSE args.folds2

InitFolds ==
    /\ pc = "getFolds"
    /\ \E files \in [Roles -> {NoneP, NoneString, UserFile("train")}],
          folds \in FoldDicts, reverse \in BOOLEAN, outdir \in {TrainingDir, NoneP} :
          /\ files["train"] = UserFile("train")
          /\ args = [inputFiles |-> files, folds |-> folds,
                     folds2 |-> IF reverse THEN [r \in Roles |-> Reversed(folds[r])]
                                ELSE folds,
                     outdir |-> outdir]
    /\ fs \in {{UserFile("train")}, {}}
    /\ optionsDefined = TRUE
    /\ settings = NoScalars
    /\ inputFiles = args.inputFiles
    /\ exampleStyles = [k \in StyleKeys |-> NoneP]
    /\ classifierParams = [k \in ClsKeys |-> NoneP]
    /\ profiles = <<>>
    /\ error = ""
    /\ NothingRun
    /\ tmpDirs = 0
    /\ computed = <<>>
    /\ InOriginalDirectory

\* what one direct call did
FoldCall(st, folds) ==
    [method |-> "getFolds", folds |-> folds, inputFiles |-> st.inputFiles,
     computed |-> st.computed, written |-> st.fs \ fs, error |-> st.error]

\* getFolds(inputFiles, folds, outdir) returns
CallGetFolds ==
    /\ pc = "getFolds"
    /\ Len(calls) < NumFoldCalls
    /\ LET folds == FoldRequest(Len(calls) + 1)
           st == GetFolds(args.inputFiles, folds, args.outdir, fs, tmpDirs)
       IN  /\ st.error = ""
           /\ SlicesAssigned(st)
           /\ calls' = Append(calls, FoldCall(st, folds))
    /\ pc' = "getFolds"
    /\ UNCHANGED <<args, optionsDefined, settings, exampleStyles, classifierParams,
                   profiles, selector, detectorSteps, omitDetectorSteps, entered,
                   detectorParams, annotated, compared, processVars>>

\* getFolds(inputFiles, folds, outdir) raises; the caller goes on to its
\* next call
CallGetFoldsRaises ==
    /\ pc = "getFolds"
    /\ Len(calls) < NumFoldCalls
    /\ LET folds == FoldRequest(Len(calls) + 1)
           st == GetFolds(args.inputFiles, folds, args.outdir, fs, tmpDirs)
       IN  /\ st.error # ""
           /\ SlicesAssigned(st)
           /\ calls' = Append(calls, FoldCall(st, folds))
    /\ pc' = "getFolds"
    /\ UNCHANGED <<args, optionsDefined, settings, exampleStyles, classifierParams,
                   profiles, selector, detectorSteps, omitDetectorSteps, entered,
                   detectorParams, annotated, compared, processVars>>

NextFolds == CallGetFolds \/ CallGetFoldsRaises

SpecFolds == InitFolds /\ [][NextFolds]_vars

(***************************************************************************)
(* Properties of the step plan and of the phases of train().               *)
(***************************************************************************)
\* the phases the caller asked to omit as a whole
OmitSet == {p \in DOMAIN args.omitSteps : args.omitSteps[p] = PyTrue}

\* the phases the caller named a resume point for
ResumeSet == DOMAIN args.step

\* the position of a phase in the fixed ordering TRAIN < DEVEL < EMPTY < TEST
Rank == [TRAIN |-> 1, DEVEL |-> 2, EMPTY |-> 3, TEST |-> 4]

\* the step plan has been built
PlanBuilt == selector.steps # <<>>

\* the detector was called for phase p
CalledFor(p) == \E i \in 1..Len(calls) : calls[i].phase = p

\* the statements of train() before the first phase block
BeforePhases == {"start", "workdir", "getTaskSettings", "getFolds", "getSubsets",
                 "getSteps", "getDetector"}

\* an exception left train(); the interpreter may have ended since
Aborted == IF error # "" THEN {"failed", "exited"} ELSE {}

\* no phase has started and the detector was never called
NoPhaseRan == entered = <<>> /\ calls = <<>>

\* the step value names one resume point, and no list
OneResumePoint ==
    /\ Cardinality(ResumeSet) = 1
    /\ \A m \in ResumeSet : args.step[m] # PyList

\* a phase should run by the rule of the plan: not omitted, and at or after
\* the resume point when there is one
ShouldRun(p) ==
    /\ p \notin OmitSet
    /\ \A r \in ResumeSet : Rank[p] >= Rank[r]

\* C1: a phase in the omit set is refused by the selector and train() never
\* enters it or calls the detector for it, whatever the resume point; and a
\* step plan whose resume phase is itself omitted is built, not rejected.
C1_OmittedPhaseNeverRuns ==
    /\ [](\A p \in OmitSet :
             /\ PlanBuilt => ~SelectorCheck(selector, p)
             /\ ~CalledFor(p)
             /\ p \notin Range(entered))
    /\ [][(pc = "getSteps" /\ OneResumePoint /\ ResumeSet \subseteq OmitSet)
              => (pc' = "getDetector" /\ error' = "")]_vars

\* train() ended, its resume phase was omitted and the later phases ran
C1_Witness ==
    /\ pc = "done"
    /\ ResumeSet = {"DEVEL"}
    /\ "DEVEL" \in OmitSet
    /\ entered = <<"EMPTY", "TEST">>
    /\ CalledFor("EMPTY")

\* C2: when train() has ended, the phases it entered are exactly the phases
\* that are not omitted and are at or after the resume point (every phase
\* when there is none); the detector was called for each of them, TEST
\* excepted when there is no test file.
C2_RunsIffEnabled ==
    pc = "done" =>
        \A p \in Phases :
            /\ p \in Range(entered) <=> ShouldRun(p)
            /\ CalledFor(p) <=> (ShouldRun(p) /\ ~(p = "TEST" /\ TestFileMissing))

\* resume at DEVEL with TEST omitted: DEVEL and EMPTY ran, TRAIN and TEST not
C2_Witness ==
    /\ pc = "done"
    /\ ResumeSet = {"DEVEL"}
    /\ OmitSet = {"TEST"}
    /\ entered = <<"DEVEL", "EMPTY">>
    /\ CalledFor("DEVEL") /\ CalledFor("EMPTY")
    /\ ~CalledFor("TRAIN") /\ ~CalledFor("TEST")

\* C3: the phases start in the order TRAIN, DEVEL, EMPTY, TEST, each at most
\* once; when a phase starts, every earlier phase that should run has
\* started, every earlier detector call has returned, and the statement
\* being executed is never a call or a model annotation of another phase.
C3_PhasesInOrder ==
    /\ \A i \in 1..Len(entered) : \A j \in 1..Len(entered) :
           i < j => Rank[entered[i]] < Rank[entered[j]]
    /\ \A p \in Range(entered) : \A q \in Phases :
           (Rank[q] < Rank[p] /\ ShouldRun(q)) => q \in Range(entered)
    /\ \A i \in 1..Len(calls) :
           /\ i < Len(calls) => calls[i].state = "returned"
           /\ calls[i].state = "running" => pc = CallPc(calls[i].phase)
    /\ \A p \in Phases : pc = CallPc(p) => entered[Len(entered)] = p
    /\ pc \in {"TRAIN.save.devel", "TRAIN.save.test"} => entered = <<"TRAIN">>

\* all four phases started, one after the other
C3_Witness ==
    /\ pc = "TEST.call"
    /\ entered = <<"TRAIN", "DEVEL", "EMPTY", "TEST">>
    /\ Len(calls) = 4
    /\ Len(annotated) = 2

\* C4: a step value that names a resume point for two or more phases makes
\* getSteps fail, and train() stops there: no phase starts and the detector
\* is never called.
C4_TwoResumePointsRejected ==
    /\ [](Cardinality(ResumeSet) >= 2 =>
             (NoPhaseRan /\ ~PlanBuilt /\ pc \in (BeforePhases \ {"getDetector"}) \cup Aborted))
    /\ [][(pc = "getSteps" /\ Cardinality(ResumeSet) >= 2)
              => (pc' = "failed" /\ error' = "AssertionError")]_vars

\* getSteps was reached with two resume points and failed
C4_Witness ==
    /\ Cardinality(ResumeSet) = 2
    /\ pc = "failed"
    /\ error = "AssertionError"
    /\ Len(profiles) = 1
    /\ profiles[1].error = ""

\* C7: a task identifier that, without "-MINI", is not one of the recognised
\* ones makes getTaskSettings fail, and train() stops there: no phase starts
\* and the detector is never called.
C7_UnknownTaskRejected ==
    /\ []((args.task # NoneP /\ Join(RemoveToken(args.task, "-MINI")) \notin RecognisedTasks)
             => (NoPhaseRan /\ pc \in {"start", "workdir", "getTaskSettings"} \cup Aborted))
    /\ [][(pc = "getTaskSettings" /\ args.task # NoneP
              /\ Join(RemoveToken(args.task, "-MINI")) \notin RecognisedTasks)
              => (pc' = "failed" /\ error' = "AssertionError")]_vars

\* getTaskSettings was called for "XX99-MINI" and failed
C7_Witness ==
    /\ args.task = <<"XX99", "-MINI">>
    /\ pc = "failed"
    /\ Len(profiles) = 1
    /\ profiles[1].error = "AssertionError"

(***************************************************************************)
(* Properties of getFolds in train().                                      *)
(***************************************************************************)
\* the request names fold labels for some dataset
AnyFoldLabels == \E r \in Roles : args.folds[r] # NoneP

\* the request names fold labels for train and for devel
FoldMode == args.folds["train"] # NoneP /\ args.folds["devel"] # NoneP

\* the devel or the test input is set to a path
DevelOrTestSet ==
    \/ inputFiles["devel"] \notin {NoneP, NoneString}
    \/ inputFiles["test"] \notin {NoneP, NoneString}

\* getFolds fails its precondition: nothing is written and no phase runs
FoldsRejected ==
    /\ pc' = "failed"
    /\ error' = "AssertionError"
    /\ fs' = fs
    /\ computed' = computed
    /\ NoPhaseRan'

\* C11 as claimed: whenever fold labels are given, for whichever dataset, and
\* the devel or the test input is set to a path, getFolds fails its
\* precondition check.
C11_AnyFoldLabelsRejected ==
    [][(pc = "getFolds" /\ AnyFoldLabels /\ DevelOrTestSet) => FoldsRejected]_vars

\* C11, amended: whenever fold labels are given for train and for devel, and
\* the devel or the test input is set to a path, getFolds fails its
\* precondition check: no fold file is written, and train() stops with no
\* phase run.
C11_FoldModeRejected ==
    /\ [][(pc = "getFolds" /\ FoldMode /\ DevelOrTestSet) => FoldsRejected]_vars
    /\ [][pc = "failed" => (NoPhaseRan' <=> NoPhaseRan) /\ fs' = fs]_vars

\* folds were requested with the test input set, and getFolds failed
C11_Witness ==
    /\ FoldMode
    /\ args.task = NoneP
    /\ inputFiles["devel"] = NoneP
    /\ inputFiles["test"] = UserFile("test")
    /\ pc = "failed"
    /\ error = "AssertionError"
    /\ Len(profiles) = 1 /\ profiles[1].error = ""
    /\ computed = <<>>

(***************************************************************************)
(* Properties of the TEST phase, of the model annotation and of the        *)
(* working directory.                                                      *)
(***************************************************************************)
\* the test input is unset, disabled ("None") or names no existing file
NoTestFile == inputFiles["test"] = NoneP \/ inputFiles["test"] \notin fs

\* C12: when the TEST phase is enabled and there is no test file, the phase
\* is skipped: train() goes on to its end with no detector call for TEST,
\* with the score output setting and the archive comparison untouched, and
\* it has completed without an error when it is there.
C12_MissingTestFileSkipped ==
    /\ [][(pc = "TEST" /\ ShouldRun("TEST") /\ NoTestFile)
              => /\ pc' = "done"
                 /\ error' = error
                 /\ calls' = calls
                 /\ detectorParams' = detectorParams
                 /\ compared' = compared]_vars
    /\ []((pc \in {"done", "exited"} /\ error = "" /\ ShouldRun("TEST") /\ NoTestFile)
             => /\ ~CalledFor("TEST")
                /\ ~compared
                /\ detectorParams = DetectorParams(settings.bioNLPSTParams))
    /\ []((pc = "done" /\ ShouldRun("TEST") /\ NoTestFile) => error = "")

\* train() ended after three phases and a skipped TEST; scores are still on
C12_Witness ==
    /\ pc = "done"
    /\ error = ""
    /\ args.task = <<"GE11">>
    /\ inputFiles["test"] = <<"", "corpora", "GE11-test.xml">>
    /\ inputFiles["test"] \notin fs
    /\ entered = <<"TRAIN", "DEVEL", "EMPTY", "TEST">>
    /\ Len(calls) = 3
    /\ detectorParams.scores

\* the models that were opened, annotated, saved and closed
AnnotatedModels == {annotated[i].model : i \in 1..Len(annotated)}

\* C13: a model is annotated only if it was requested and its file exists
\* after training, and it then carries the detector's name; the annotation
\* loop creates no file; when a later phase starts, the annotation of every
\* existing requested model is complete and no other model was touched.
C13_AnnotateExistingModelsOnly ==
    /\ [](\A i \in 1..Len(annotated) :
             /\ annotated[i].model # NoneP
             /\ annotated[i].model \in {args.models["devel"], args.models["test"]}
             /\ annotated[i].model \in fs
             /\ annotated[i].detector = settings.detector
             /\ \A j \in 1..Len(annotated) : annotated[j].model = annotated[i].model => j = i)
    /\ [][(pc \in {"TRAIN.save.devel", "TRAIN.save.test"}) => fs' = fs]_vars
    /\ []((Len(entered) >= 2 /\ entered[1] = "TRAIN")
             => AnnotatedModels = {args.models["devel"], args.models["test"]} \cap fs)
    /\ []("TRAIN" \notin Range(entered) => annotated = <<>>)

\* training made the devel model only, both were requested, and DEVEL is next
C13_Witness ==
    /\ pc = "DEVEL"
    /\ entered = <<"TRAIN">>
    /\ args.models = BothModels
    /\ <<"model-devel">> \in fs
    /\ <<"model-test">> \notin fs
    /\ Len(annotated) = 1
    /\ annotated[1].model = <<"model-devel">>
    /\ annotated[1].detector = "Detectors.EventDetector"

\* C14: the working directory changes only when workdir() switches to the
\* output directory, having registered one exit hook for the directory that
\* was current, and when the interpreter ends; the hooks then run, one for
\* each switch, and leave the process in the original directory, whether
\* train() returned or an exception left it.
C14_DirectoryRestoredOnce ==
    /\ [](pc # "exited" =>
             /\ restored = <<>>
             /\ \/ (cwd = OriginalDir /\ atexit = <<>>)
                \/ (cwd = args.output /\ atexit = <<OriginalDir>>))
    /\ [][cwd' # cwd =>
             \/ (pc = "workdir" /\ cwd' = args.output /\ atexit' = Append(atexit, cwd))
             \/ (pc \in {"done", "failed"} /\ pc' = "exited")]_vars
    /\ [][pc' = "exited" =>
             /\ Len(restored') = Len(atexit)
             /\ \A i \in 1..Len(restored') : restored'[i] = OriginalDir
             /\ atexit' = <<>>
             /\ cwd' = OriginalDir]_vars
    /\ [](pc = "exited" => cwd = OriginalDir /\ Len(restored) <= 1)

\* a detector call raised after the switch, and the exit hook went back
C14_Witness ==
    /\ pc = "exited"
    /\ error = "DelegateError"
    /\ outputExists
    /\ restored = <<OriginalDir>>
    /\ cwd = OriginalDir

\* the fold files and the subset files that were computed
FoldsComputed == {i \in 1..Len(computed) : computed[i].fraction = "set"}
SubsetsComputed == {i \in 1..Len(computed) : computed[i].fraction # "set"}

\* C15: in no run of train() are a fold file and a subset file both
\* computed, no subset is taken of a fold file, and no input ends up as the
\* subset of a fold file.
C15_FoldsAndSubsetsExclusive ==
    /\ ~(FoldsComputed # {} /\ SubsetsComputed # {})
    /\ \A i \in SubsetsComputed : \A j \in FoldsComputed :
           computed[i].source # computed[j].out
    /\ (FoldMode /\ pc \notin {"start", "workdir", "getTaskSettings", "getFolds"})
           => SubsetsComputed = {}

\* folds and a subset fraction were requested; the devel fold was computed
\* and train() ended in getFolds
C15_Witness ==
    /\ FoldMode
    /\ args.subset["all"] = "0.5"
    /\ pc = "failed"
    /\ error = "TypeError"
    /\ Len(computed) = 1
    /\ computed[1].out = <<"training", "devel-a.xml">>
    /\ inputFiles["devel"] = <<"training", "devel-a.xml">>

(***************************************************************************)
(* Properties of getFolds called directly.                                 *)
(***************************************************************************)
\* the i-th call had fold labels for the three datasets, no devel and test
\* input, an output directory and an existing train source
FullFoldRequest(i) ==
    /\ \A d \in Roles : calls[i].folds[d] # NoneP
    /\ args.inputFiles["devel"] \in {NoneP, NoneString}
    /\ args.inputFiles["test"] \in {NoneP, NoneString}
    /\ args.outdir # NoneP
    /\ args.inputFiles["train"] \in fs

\* C16: with fold labels for train, devel and test and the devel and test
\* inputs unset, getFolds returns and each of the three inputs is the fold
\* file of its own label list, computed (or found) from the train source the
\* caller declared.
C16_ThreeFoldsMaterialised ==
    \A i \in 1..Len(calls) :
        FullFoldRequest(i) =>
            /\ calls[i].error = ""
            /\ \A d \in Roles :
                  /\ calls[i].inputFiles[d]
                        = PathJoin(args.outdir, FoldFileName(d, calls[i].folds[d]))
                  /\ calls[i].inputFiles[d] \in fs
            /\ \A k \in 1..Len(calls[i].computed) :
                  calls[i].computed[k].source = args.inputFiles["train"]
\* two calls derived the devel fold, from label lists with the same labels
SameDevelLabels(i, j) ==
    /\ calls[i].folds["train"] # NoneP /\ calls[j].folds["train"] # NoneP
    /\ calls[i].folds["devel"] # NoneP
    /\ Range(calls[i].folds["devel"]) = Range(calls[j].folds["devel"])
    /\ Len(calls[i].folds["devel"]) = Len(calls[j].folds["devel"])
    /\ args.outdir # NoneP
    /\ calls[i].inputFiles["devel"] # args.inputFiles["devel"]
    /\ calls[j].inputFiles["devel"] # args.inputFiles["devel"]

\* C17: two fold requests whose devel label lists are permutations of each
\* other map to the same derived path, and the second finds the file the
\* first wrote and computes nothing.
C17_FoldNameIgnoresOrder ==
    \A i \in 1..Len(calls) : \A j \in 1..Len(calls) :
        (i < j /\ SameDevelLabels(i, j)) =>
            /\ calls[j].inputFiles["devel"] = calls[i].inputFiles["devel"]
            /\ calls[j].computed = <<>>
            /\ calls[j].written = {}

\* the substep the request names for a phase, None when it names the phase
\* alone or not at all
RequestedSubStep(p) ==
    IF p \in ResumeSet /\ args.step[p] # PyTrue THEN args.step[p] ELSE PyNone

\* C20: once the step plan is built, at most one phase has a resume substep
\* and it is the resume phase; every detector call gets as fromStep the
\* substep the request names for its phase, which is none for every phase
\* but the resume phase and none when the request names the phase alone.
C20_SubStepOnlyForResumePhase ==
    /\ PlanBuilt =>
          /\ Cardinality({p \in Phases : detectorSteps[p] # PyNone}) <= 1
          /\ \A p \in Phases :
                detectorSteps[p] # PyNone => (ResumeSet = {p} /\ selector.fromStep = p)
    /\ \A i \in 1..Len(calls) :
          /\ calls[i].fromStep = RequestedSubStep(calls[i].phase)
          /\ calls[i].phase \notin ResumeSet => calls[i].fromStep = PyNone

\* resume at DEVEL from substep EDGES: DEVEL was called with it, EMPTY without
C20_Witness ==
    /\ ResumeSet = {"DEVEL"}
    /\ args.step["DEVEL"] = "EDGES"
    /\ Len(calls) = 2
    /\ calls[1].phase = "DEVEL" /\ calls[1].fromStep = "EDGES"
    /\ calls[2].phase = "EMPTY" /\ calls[2].fromStep = PyNone

\* the caller disabled an input role with the sentinel "None"
Disabled(r) == args.inputFiles[r] = NoneString

FractionOf(d) ==
    IF args.inputFiles[d] \in {NoneP, NoneString} THEN PyNone
    ELSE IF args.subset[d] # PyNone THEN args.subset[d]
    ELSE args.subset["all"]

\* C10: with an output directory, a call of getSubsets that follows a
\* successful call with the same parameters returns the same paths,
\* computes no subset and writes no file; each path is
\* <outdir>/subset_<fraction>_<seed>_<basename(source)>, which is
\* training/subset_0.5_0_corpus.xml for 0.5, seed 0 and corpus.xml.
C10_SubsetsIdempotent ==
    (args.outdir # NoneP /\ Len(calls) >= 1 /\ calls[1].error = "") =>
        /\ \A d \in Roles :
              /\ FractionOf(d) = PyNone => calls[1].inputFiles[d] = args.inputFiles[d]
              /\ FractionOf(d) # PyNone =>
                    /\ Len(calls[1].inputFiles[d]) = Len(args.outdir) + 1
                    /\ SubSeq(calls[1].inputFiles[d], 1, Len(args.outdir)) = args.outdir
              /\ (/\ FractionOf(d) \in {"0.5", Float05}
                  /\ args.subset["seed"] = 0
                  /\ args.inputFiles[d] = CorpusFile
                  /\ args.outdir = <<"training">>)
                    => calls[1].inputFiles[d] = <<"training", "subset_0.5_0_corpus.xml">>
        /\ \A j \in 2..Len(calls) :
              /\ calls[j].error = ""
              /\ calls[j].inputFiles = calls[1].inputFiles
              /\ calls[j].computed = <<>>
              /\ calls[j].written = {}

\* the subset of corpus.xml was computed by the first call and found by the
\* second
C10_Witness ==
    /\ Len(calls) = 2
    /\ args.outdir = <<"training">>
    /\ args.inputFiles["train"] = CorpusFile
    /\ args.subset["train"] = Float05
    /\ args.subset["seed"] = 0
    /\ Len(calls[1].computed) >= 1
    /\ calls[1].written # {}
    /\ calls[2].inputFiles["train"] = <<"training", "subset_0.5_0_corpus.xml">>

(***************************************************************************)
(* Properties of the task profile resolver.                                *)
(***************************************************************************)
\* the caller passed no override at all (every optional argument at its default)
NoOverrides ==
    /\ args.detector = PyNone
    /\ args.processUnmerging = PyNone
    /\ args.processModifiers = PyNone
    /\ args.isSingleStage = FALSE
    /\ args.bioNLPSTParams = NoneP
    /\ args.preprocessorParams = NoneP
    /\ \A r \in Roles : args.inputFiles[r] = NoneP
    /\ \A k \in StyleKeys : args.exampleStyles[k] = NoneP
    /\ \A k \in ClsKeys : args.classifierParams[k] = NoneP

\* the profiles getTaskSettings returned (it raised nothing)
Resolved == {i \in 1..Len(profiles) : profiles[i].error = ""}

\* C5: for a recognised task, every slot the caller supplied a value for holds
\* exactly that value in the resolved profile.
C5_OverridePrecedence ==
    \A i \in Resolved :
        args.task # NoneP =>
            /\ ~IsBlank(args.bioNLPSTParams)
                  => profiles[i].bioNLPSTParams = args.bioNLPSTParams
            /\ ~IsBlank(args.preprocessorParams)
                  => profiles[i].preprocessorParams = args.preprocessorParams
            /\ \A k \in StyleKeys :
                  ~IsBlank(args.exampleStyles[k])
                      => profiles[i].exampleStyles[k] = args.exampleStyles[k]
            /\ \A k \in ClsKeys :
                  ~IsBlank(args.classifierParams[k])
                      => profiles[i].classifierParameters[k] = args.classifierParams[k]
            /\ args.processUnmerging # PyNone
                  => profiles[i].processUnmerging = args.processUnmerging
            /\ args.processModifiers # PyNone
                  => profiles[i].processModifiers = args.processModifiers
            /\ args.detector # PyNone => profiles[i].detector = args.detector

\* C6: resolving again with the same arguments and the same dictionaries
\* returns the profile the first resolution returned.
C6_ResolveTwiceSame ==
    \A i \in Resolved : \A j \in Resolved : profiles[i] = profiles[j]

\* a recognised task with an override was resolved twice
C6_Witness ==
    /\ Len(profiles) >= 2
    /\ profiles[2].error = ""
    /\ args.task = <<"GE11", ".", "1">>
    /\ args.exampleStyles["edge"] = <<"keep_names">>
    /\ profiles[1].inputFiles["devel"] = <<"", "corpora", "GE11-devel.xml">>

\* C8: "BI11-FULL" without overrides resolves to the evaluation parameters
\* "convert:scores" and to preprocessing parameters that omit the steps NER
\* and DIVIDE-SETS.
C8_BI11FullScenario ==
    \A i \in Resolved :
        (args.task = <<"BI11", "-FULL">> /\ NoOverrides) =>
            /\ profiles[i].bioNLPSTParams = <<"convert", "scores">>
            /\ HasToken(profiles[i].preprocessorParams, "omitSteps=NER,DIVIDE-SETS")

\* C9: "REN11" without overrides resolves to Detectors.EdgeDetector, single
\* stage, with an example style that has the flag bacteria_renaming.
C9_REN11Scenario ==
    \A i \in Resolved :
        (args.task = <<"REN11">> /\ NoOverrides) =>
            /\ profiles[i].detector = "Detectors.EdgeDetector"
            /\ profiles[i].isSingleStage = TRUE
            /\ HasToken(profiles[i].exampleStyles["examples"], "bacteria_renaming")

\* "REN11" without overrides was resolved
C9_Witness ==
    /\ args.task = <<"REN11">>
    /\ NoOverrides
    /\ Len(profiles) >= 1
    /\ profiles[1].error = ""

\* C18: with the train input unset, the task ID11 resolves its train input to
\* the archive catenated from ID11-train, GE11-devel and GE11-train, and every
\* other recognised task to <root>/<task>-train.xml.
C18_ID11TrainIsCatenated ==
    \A i \in Resolved :
        (args.task # NoneP /\ args.inputFiles["train"] = NoneP) =>
            IF RemoveToken(SplitTask(args.task).task, "-MINI") = <<"ID11">>
            THEN profiles[i].inputFiles["train"] = CatenatedTrain
            ELSE profiles[i].inputFiles["train"]
                    = DefaultPath(SplitTask(args.task).task, "train")

\* the identifier the toggles are decided on: no sub-task, no "-MINI"
BaseTask == Join(RemoveToken(SplitTask(args.task).task, "-MINI"))

\* the recognised identifiers without their sub-tasks
BaseTasks == {"GE09", "GE11", "EPI11", "ID11", "BB11", "BI11", "BI11-FULL", "CO11",
              "REL11", "REN11", "DDI11", "DDI11-FULL"}

\* the tasks that are multi-stage when the caller names no detector, and
\* whose unmerging toggle resolves to false when unset
UnmergingOffTasks ==
    {t \in BaseTasks : /\ ~DefaultDetector(t, PyNone, FALSE).isSingleStage
                       /\ DefaultUnmerging(t, PyNone, FALSE) = PyFalse}

\* the tasks whose modifier toggle resolves to true when unset
ModifiersOnTasks == {t \in BaseTasks : DefaultModifiers(t, PyNone) = PyTrue}

\* a toggle the caller supplied is returned as it is
TogglesKept(i) ==
    /\ args.processUnmerging # PyNone
          => profiles[i].processUnmerging = args.processUnmerging
    /\ args.processModifiers # PyNone
          => profiles[i].processModifiers = args.processModifiers

\* C19 as claimed: an unset unmerging toggle of a multi-stage task resolves
\* to false for exactly four tasks and to true for the others; an unset
\* modifier toggle resolves to true for GE11, EPI11 and ID11 and to false for
\* the others; a supplied toggle is returned unchanged.
C19_FourTasksWithoutUnmerging ==
    \A i \in Resolved :
        args.task # NoneP =>
            /\ Cardinality(UnmergingOffTasks) = 4
            /\ ModifiersOnTasks = {"GE11", "EPI11", "ID11"}
            /\ (args.processUnmerging = PyNone /\ ~profiles[i].isSingleStage) =>
                  profiles[i].processUnmerging
                     = (IF BaseTask \in UnmergingOffTasks THEN PyFalse ELSE PyTrue)
            /\ (args.processModifiers = PyNone /\ ~profiles[i].isSingleStage) =>
                  profiles[i].processModifiers
                     = (IF BaseTask \in ModifiersOnTasks THEN PyTrue ELSE PyFalse)
            /\ TogglesKept(i)

\* C19, amended: an unset unmerging toggle of a multi-stage task resolves to
\* false for exactly the five tasks CO11, REL11, BB11, BI11-FULL and
\* DDI11-FULL and to true for the others; an unset modifier toggle resolves
\* to true for GE11, EPI11 and ID11 (sub-task variants included) and to
\* false for the others; a supplied toggle is returned unchanged.
C19_FiveTasksWithoutUnmerging ==
    \A i \in Resolved :
        args.task # NoneP =>
            /\ (args.processUnmerging = PyNone /\ ~profiles[i].isSingleStage) =>
                  profiles[i].processUnmerging
                     = (IF BaseTask \in {"CO11", "REL11", "BB11", "BI11-FULL", "DDI11-FULL"}
                        THEN PyFalse ELSE PyTrue)
            /\ (args.processModifiers = PyNone /\ ~profiles[i].isSingleStage) =>
                  profiles[i].processModifiers
                     = (IF BaseTask \in {"GE11", "EPI11", "ID11"} THEN PyTrue ELSE PyFalse)
            /\ TogglesKept(i)

\* "BB11" was resolved with both toggles unset: no unmerging, no modifiers
C19_Witness ==
    /\ args.task = <<"BB11">>
    /\ args.processUnmerging = PyNone
    /\ args.processModifiers = PyNone
    /\ Len(profiles) >= 1
    /\ profiles[1].error = ""
    /\ ~profiles[1].isSingleStage
    /\ profiles[1].processUnmerging = PyFalse
    /\ profiles[1].processModifiers = PyFalse

====
